---- MODULE Spec2Model ----
(***************************************************************************)
(* A model of github.com/lestrrat-go/jsptr (jsptr.go): JSON-pointer        *)
(* parsing (New, unescapeToken), source dispatch (createSource), the       *)
(* navigation engines (scalarSource, jsonSource, mapSource, sliceSource,   *)
(* structSource) and the struct field cache (getStructInfo).               *)
(*                                                                         *)
(* Go strings that the code inspects character by character (pointer       *)
(* texts, tokens, map keys, field names) are sequences of one-character    *)
(* strings.  Go values are records tagged by a field k.                    *)
(***************************************************************************)
EXTENDS Integers, Sequences, FiniteSets, TLC

VARIABLES
    pathspec,      \* tokenizer run: the text handed to New
    newResult,     \* tokenizer run: what New returned ("pending" before the call)
    g,             \* per goroutine: the Retrieve call in progress
    structCache,   \* jsptr.go:350  map[reflect.Type]*structInfo
    readers,       \* jsptr.go:351  goroutines holding cacheMutex.RLock
    writer,        \* jsptr.go:351  goroutine holding cacheMutex.Lock, 0 if none
    built,         \* history: per type, the structInfo ids inserted and returned
    assignsNil,    \* environment: whether the assignment utility accepts an untyped nil
    inputs         \* environment: per goroutine, the Retrieve calls it may make

vars == <<pathspec, newResult, g, structCache, readers, writer, built, assignsNil, inputs>>

----------------------------------------------------------------------------
(* Bounds *)

MaxTextLen == 4     \* longest pointer text handed to New in the tokenizer runs
MaxTokens == 2      \* most tokens of a pointer handed to Retrieve
MaxRawLen == 5      \* longest raw token tried against the escaping targets
NumThreads == 2     \* goroutines resolving concurrently
MaxStackDepth == 5  \* processFields frames a goroutine's stack holds

----------------------------------------------------------------------------
(* Strings *)

Alphabet == {"/", "~", "0", "1", "a"}

RECURSIVE SeqsUpTo(_, _)
SeqsUpTo(S, n) ==
    IF n = 0 THEN {<<>>}
    ELSE LET shorter == SeqsUpTo(S, n - 1)
         IN  shorter \cup {Append(s, c) : s \in {x \in shorter : Len(x) = n - 1}, c \in S}

Texts == SeqsUpTo(Alphabet, MaxTextLen)

\* strings.HasPrefix(s, "/")
HasSlashPrefix(s) == Len(s) >= 1 /\ s[1] = "/"

\* strings.Split(s, "/"): the segments between the separators, always at least one
RECURSIVE SplitFrom(_, _, _)
SplitFrom(s, i, part) ==
    IF i > Len(s) THEN <<part>>
    ELSE IF s[i] = "/" THEN <<part>> \o SplitFrom(s, i + 1, <<>>)
    ELSE SplitFrom(s, i + 1, Append(part, s[i]))

Split(s) == SplitFrom(s, 1, <<>>)

\* strings.Join(parts, "/")
RECURSIVE Join(_)
Join(parts) ==
    IF Len(parts) = 0 THEN <<>>
    ELSE IF Len(parts) = 1 THEN parts[1]
    ELSE parts[1] \o <<"/">> \o Join(Tail(parts))

\* strings.ReplaceAll(s, old, new) for a two-character old and a one-character
\* new: non-overlapping matches, scanned left to right, replaced text not rescanned
RECURSIVE ReplaceAll2(_, _, _, _)
ReplaceAll2(s, o1, o2, new) ==
    IF Len(s) = 0 THEN <<>>
    ELSE IF Len(s) >= 2 /\ s[1] = o1 /\ s[2] = o2
         THEN <<new>> \o ReplaceAll2(SubSeq(s, 3, Len(s)), o1, o2, new)
         ELSE <<s[1]>> \o ReplaceAll2(Tail(s), o1, o2, new)

\* jsptr.go:68  the first pass: every ~1 to /
DecodeSlashes(token) == ReplaceAll2(token, "~", "1", "/")

\* unescapeToken with the passes in the other order: ~0 -> ~ first
unescapeTokenTildeFirst(token) ==
    ReplaceAll2(ReplaceAll2(token, "~", "0", "~"), "~", "1", "/")

\* jsptr.go:66  ~1 -> / first, then ~0 -> ~
unescapeToken(token) ==
    ReplaceAll2(ReplaceAll2(token, "~", "1", "/"), "~", "0", "~")

UnescapeAll(parts) == [i \in 1..Len(parts) |-> unescapeToken(parts[i])]

\* the pointer text of a token sequence: "" for none, else "/" before each token
RECURSIVE TextOf(_)
TextOf(tokens) ==
    IF Len(tokens) = 0 THEN <<>> ELSE <<"/">> \o tokens[1] \o TextOf(Tail(tokens))

\* A *Pointer; nil is NoPointer
NoPointer == [isnil |-> TRUE, pattern |-> <<>>, tokens |-> <<>>]

MkPointer(pattern, tokens) == [isnil |-> FALSE, pattern |-> pattern, tokens |-> tokens]

\* New with the pattern rebuilt from the decoded tokens instead of kept verbatim
NewStoresDecoded(spec) ==
    IF spec = <<>> THEN [err |-> "ok", ptr |-> MkPointer(<<>>, <<>>)]
    ELSE IF ~HasSlashPrefix(spec)
         THEN [err |-> "MalformedPointer", ptr |-> NoPointer]
         ELSE LET tokens == UnescapeAll(Tail(Split(spec)))
              IN  [err |-> "ok", ptr |-> MkPointer(TextOf(tokens), tokens)]

\* New without the check for the leading "/"
NewNoPrefixCheck(spec) ==
    IF spec = <<>> THEN [err |-> "ok", ptr |-> MkPointer(<<>>, <<>>)]
    ELSE [err |-> "ok", ptr |-> MkPointer(spec, UnescapeAll(Tail(Split(spec))))]

\* jsptr.go:26
New(spec) ==
    IF spec = <<>> THEN [err |-> "ok", ptr |-> MkPointer(<<>>, <<>>)]
    ELSE IF ~HasSlashPrefix(spec)
         THEN [err |-> "MalformedPointer", ptr |-> NoPointer]
         ELSE [err |-> "ok",
               ptr |-> MkPointer(spec, UnescapeAll(Tail(Split(spec))))]

\* jsptr.go:51
Pattern(p) == p.pattern

----------------------------------------------------------------------------
(* Go values.  Each kind has its own payload field, so that two values of   *)
(* different kinds never hold differently typed data under one field name.  *)

NilV == [k |-> "nil"]                              \* untyped nil interface
IntV(n) == [k |-> "int", n |-> n]
FloatV(n) == [k |-> "float64", x |-> n]
BoolV(b) == [k |-> "bool", b |-> b]
StrV(s) == [k |-> "string", s |-> s]
BytesV(s) == [k |-> "bytes", s |-> s]              \* []byte
MapV(et, m) == [k |-> "map", et |-> et, m |-> m]   \* map[string]et; et "any" is map[string]any
IntMapV(im) == [k |-> "intmap", im |-> im]         \* map[int]...
SliceV(et, e) == [k |-> "slice", et |-> et, e |-> e]  \* []et; et "any" is []any
ArrayV(et, e) == [k |-> "array", et |-> et, e |-> e]  \* [N]et
StructV(t, fl) == [k |-> "struct", t |-> t, fl |-> fl]
PtrV(v) == [k |-> "ptr", p |-> v]
NilPtrV(t) == [k |-> "nilptr", t |-> t]
CustomV(m) == [k |-> "custom", cm |-> m]           \* a *CustomSource (implements Source)

EmptyMap == [x \in {} |-> NilV]

\* The parsed tree of the JSON library (fastjson.Value)
JNull == [t |-> "null"]
JTrue == [t |-> "true"]
JFalse == [t |-> "false"]
JStr(s) == [t |-> "string", s |-> s]
JNum(n) == [t |-> "number", x |-> n]
JArr(items) == [t |-> "array", a |-> items]
JObj(kvs) == [t |-> "object", kv |-> kvs]          \* pairs in document order
KV(key, val) == [key |-> key, val |-> val]

----------------------------------------------------------------------------
(* The assignment utility, blackmagic.AssignIfCompatible(dst, src).  A     *)
(* result is [err, w]: the error kind and the values written to dst.       *)

Ok(v) == [err |-> "ok", w |-> <<v>>]
Fail(kind) == [err |-> kind, w |-> <<>>]

AssignIfCompatible(dstT, src) ==
    IF src.k = "nil"
    THEN IF assignsNil /\ dstT = "any" THEN Ok(src) ELSE Fail("TypeMismatch")
    ELSE IF dstT = "any" THEN Ok(src)
    ELSE IF src.k = "nilptr" THEN Fail("TypeMismatch")
    ELSE LET r == IF src.k = "ptr" THEN src.p ELSE src
         IN  IF r.k = dstT THEN Ok(r) ELSE Fail("TypeMismatch")

----------------------------------------------------------------------------
(* strconv.Atoi: an optional sign, then one or more decimal digits.        *)

Digits == {"0", "1", "2", "3", "4", "5", "6", "7", "8", "9"}

DigitVal(c) ==
    CASE c = "0" -> 0 [] c = "1" -> 1 [] c = "2" -> 2 [] c = "3" -> 3
      [] c = "4" -> 4 [] c = "5" -> 5 [] c = "6" -> 6 [] c = "7" -> 7
      [] c = "8" -> 8 [] c = "9" -> 9

RECURSIVE DecValue(_, _)
DecValue(s, acc) ==
    IF Len(s) = 0 THEN acc ELSE DecValue(Tail(s), acc * 10 + DigitVal(s[1]))

Atoi(s) ==
    LET signed == Len(s) >= 1 /\ s[1] \in {"+", "-"}
        ds == IF signed THEN Tail(s) ELSE s
    IN  IF Len(ds) = 0 \/ \E i \in 1..Len(ds) : ds[i] \notin Digits
        THEN [ok |-> FALSE, n |-> 0]
        ELSE [ok |-> TRUE,
              n |-> IF signed /\ s[1] = "-" THEN 0 - DecValue(ds, 0) ELSE DecValue(ds, 0)]

\* the index checks with an index out of range reported as a missing entry
IndexIntoNotFound(token, length) ==
    LET a == Atoi(token)
    IN  IF ~a.ok THEN [err |-> "TypeMismatch", i |-> 0]
        ELSE IF a.n < 0 \/ a.n >= length
             THEN [err |-> "NotFound", i |-> 0]
             ELSE [err |-> "ok", i |-> a.n]

\* the index checks shared by the three ordered-container branches
\* (jsptr.go:188-198, 288-294, 321-327): [err, i] with i the 0-based index
IndexInto(token, length) ==
    LET a == Atoi(token)
    IN  IF ~a.ok THEN [err |-> "TypeMismatch", i |-> 0]       \* invalid array index
        ELSE IF a.n < 0 \/ a.n >= length
             THEN [err |-> "OutOfBounds", i |-> 0]            \* out of bounds
             ELSE [err |-> "ok", i |-> a.n]

----------------------------------------------------------------------------
(* The JSON parser, fastjson.Parser.ParseBytes.  A text is known by its    *)
(* literal; the parser's result on each text the model uses is tabulated,  *)
(* and every other text (such as `hello` or `{"a": }`) fails to parse.     *)

DocEsc == "{\"a/a\":\"v1\",\"a~a\":\"v2\",\"a~1a\":\"v3\"}"
DocNest == "{\"a\":[1,{\"b\":true}],\"b\":\"x\",\"c\":null}"
DocArr == "[1,[2,3]]"
DocNum == "1"
DocBad == "{\"a\": }"
DocDup == "{\"a\":1,\"a\":2}"

ParsedDocs ==
    [d \in {DocEsc, DocNest, DocArr, DocNum, DocDup} |->
        CASE d = DocEsc ->
                 JObj(<<KV(<<"a", "/", "a">>, JStr("v1")),
                        KV(<<"a", "~", "a">>, JStr("v2")),
                        KV(<<"a", "~", "1", "a">>, JStr("v3"))>>)
          [] d = DocNest ->
                 JObj(<<KV(<<"a">>, JArr(<<JNum(1), JObj(<<KV(<<"b">>, JTrue)>>)>>)),
                        KV(<<"b">>, JStr("x")),
                        KV(<<"c">>, JNull)>>)
          [] d = DocArr -> JArr(<<JNum(1), JArr(<<JNum(2), JNum(3)>>)>>)
          [] d = DocNum -> JNum(1)
          [] d = DocDup -> JObj(<<KV(<<"a">>, JNum(1)), KV(<<"a">>, JNum(2))>>)]

ParseBytes(data) ==
    IF data \in DOMAIN ParsedDocs
    THEN [err |-> "ok", parsed |-> ParsedDocs[data]]
    ELSE [err |-> "ParseFailure", parsed |-> JNull]

----------------------------------------------------------------------------
(* createSource (jsptr.go:74): [err, eng, data], the engine chosen for a   *)
(* target and the data the engine wraps.                                   *)

Source(eng, data) == [err |-> "ok", eng |-> eng, data |-> data]
NoSource(kind) == [err |-> kind, eng |-> "none", data |-> NilV]

\* createJSONSource that wraps a text it cannot parse as a scalar
createJSONSourceFallback(data) ==
    LET r == ParseBytes(data)
    IN  IF r.err # "ok" THEN Source("scalar", StrV(data)) ELSE Source("json", r.parsed)

\* jsptr.go:135
createJSONSource(data) ==
    LET r == ParseBytes(data)
    IN  IF r.err # "ok" THEN NoSource("ParseFailure") ELSE Source("json", r.parsed)

RECURSIVE createSource(_)

\* jsptr.go:81-131  the dispatch on the reflected type.  A *CustomSource is
\* a pointer to a struct.
createByReflection(target) ==
    CASE target.k = "nil" -> Source("scalar", target)                  \* :82
      [] target.k \in {"bytes", "string"} -> createJSONSource(target.s) \* :88-91
      [] target.k = "map" /\ target.et = "any" -> Source("map", target) \* :92
      [] target.k \in {"slice", "array"} ->                            \* :98-105
             Source("slice", SliceV("any", target.e))
      [] target.k = "map" /\ target.et # "any" ->                      \* :108-116
             Source("map", MapV("any", target.m))
      [] target.k = "intmap" -> NoSource("TypeMismatch")               \* :119
      [] target.k = "struct" -> Source("struct", target)               \* :121
      [] target.k = "nilptr" -> Source("scalar", target)               \* :124
      [] target.k = "ptr" -> createSource(target.p)                    \* :127
      [] target.k = "custom" ->                                        \* :127
             createSource(StructV("CustomSource", <<MapV("any", target.cm)>>))
      [] OTHER -> Source("scalar", target)                             \* :130

\* createSource without the check for a target that implements Source
createSourceSkipsCapability(target) == createByReflection(target)

\* jsptr.go:74-78  a target that implements Source is used as it is
createSource(target) ==
    IF target.k = "custom" THEN Source("custom", target)
    ELSE createByReflection(target)

----------------------------------------------------------------------------
(* Engines.  Each returns [err, w]: the error kind and the values written  *)
(* to the destination, in order.                                           *)

\* scalarRetrieve without the check of the pointer
scalarRetrieveAnyPointer(data, dstT, ptrspec) == AssignIfCompatible(dstT, data)

\* jsptr.go:149
scalarRetrieve(data, dstT, ptrspec) ==
    IF ptrspec # <<>> THEN Fail("TypeMismatch")     \* cannot index into scalar value
    ELSE AssignIfCompatible(dstT, data)

\* fastjson Object.Get: the first pair whose key matches
RECURSIVE ObjGet(_, _)
ObjGet(kvs, key) ==
    IF Len(kvs) = 0 THEN [found |-> FALSE, val |-> JNull]
    ELSE IF kvs[1].key = key THEN [found |-> TRUE, val |-> kvs[1].val]
    ELSE ObjGet(Tail(kvs), key)

\* jsptr.go:180-203  the walk over the parsed tree: [err, val]
RECURSIVE jsonWalk(_, _)
jsonWalk(current, tokens) ==
    IF Len(tokens) = 0 THEN [err |-> "ok", val |-> current]
    ELSE LET token == tokens[1]
         IN  CASE current.t = "object" ->
                      LET r == ObjGet(current.kv, token)
                      IN  IF ~r.found THEN [err |-> "NotFound", val |-> JNull]
                          ELSE jsonWalk(r.val, Tail(tokens))
               [] current.t = "array" ->
                      LET ix == IndexInto(token, Len(current.a))
                      IN  IF ix.err # "ok" THEN [err |-> ix.err, val |-> JNull]
                          ELSE jsonWalk(current.a[ix.i + 1], Tail(tokens))
               [] OTHER -> [err |-> "TypeMismatch", val |-> JNull]   \* cannot index into

MapPut(m, key, val) == [x \in DOMAIN m \cup {key} |-> IF x = key THEN val ELSE m[x]]

\* jsptr.go:209  assignFromValue: typed tree to generic value, then assign
RECURSIVE assignFromValue(_, _)
RECURSIVE ConvertItems(_, _)
RECURSIVE VisitPairs(_, _)

\* :234-241  an item that fails to convert fails the array
ConvertItems(items, acc) ==
    IF Len(items) = 0 THEN [err |-> "ok", e |-> acc]
    ELSE LET r == assignFromValue("any", items[1])
         IN  IF r.err # "ok" THEN [err |-> r.err, e |-> <<>>]
             ELSE ConvertItems(Tail(items), Append(acc, r.w[1]))

\* :248-254  a value that fails to convert is left out of the map
VisitPairs(kvs, acc) ==
    IF Len(kvs) = 0 THEN acc
    ELSE LET r == assignFromValue("any", kvs[1].val)
         IN  VisitPairs(Tail(kvs),
                        IF r.err = "ok" THEN MapPut(acc, kvs[1].key, r.w[1]) ELSE acc)

assignFromValue(dstT, v) ==
    CASE v.t = "null" -> AssignIfCompatible(dstT, NilV)
      [] v.t = "string" -> AssignIfCompatible(dstT, StrV(v.s))
      [] v.t = "number" -> AssignIfCompatible(dstT, FloatV(v.x))
      [] v.t = "true" -> AssignIfCompatible(dstT, BoolV(TRUE))
      [] v.t = "false" -> AssignIfCompatible(dstT, BoolV(FALSE))
      [] v.t = "array" ->
             LET r == ConvertItems(v.a, <<>>)
             IN  IF r.err # "ok" THEN Fail(r.err)
                 ELSE AssignIfCompatible(dstT, SliceV("any", r.e))
      [] v.t = "object" ->
             AssignIfCompatible(dstT, MapV("any", VisitPairs(v.kv, EmptyMap)))

\* jsptr.go:163
jsonRetrieve(parsed, dstT, ptrspec) ==
    IF ptrspec = <<>> THEN assignFromValue(dstT, parsed)
    ELSE LET p == New(ptrspec)
         IN  IF p.err # "ok" THEN Fail(p.err)
             ELSE LET r == jsonWalk(parsed, p.ptr.tokens)
                  IN  IF r.err # "ok" THEN Fail(r.err)
                      ELSE assignFromValue(dstT, r.val)

RECURSIVE mapWalk(_, _)

\* the walk with a list case that takes lists of every element type
mapWalkTypedLists(current, tokens) ==
    IF Len(tokens) = 0 THEN [err |-> "ok", val |-> current]
    ELSE LET token == tokens[1]
         IN  CASE current.k = "map" /\ current.et = "any" ->
                      IF token \notin DOMAIN current.m
                      THEN [err |-> "NotFound", val |-> NilV]
                      ELSE mapWalk(current.m[token], Tail(tokens))
               [] current.k = "slice" ->
                      LET ix == IndexInto(token, Len(current.e))
                      IN  IF ix.err # "ok" THEN [err |-> ix.err, val |-> NilV]
                          ELSE mapWalk(current.e[ix.i + 1], Tail(tokens))
               [] OTHER -> [err |-> "TypeMismatch", val |-> NilV]

\* jsptr.go:279-299  the walk over generic values: [err, val]
mapWalk(current, tokens) ==
    IF Len(tokens) = 0 THEN [err |-> "ok", val |-> current]
    ELSE LET token == tokens[1]
         IN  CASE current.k = "map" /\ current.et = "any" ->
                      IF token \notin DOMAIN current.m
                      THEN [err |-> "NotFound", val |-> NilV]
                      ELSE mapWalk(current.m[token], Tail(tokens))
               [] current.k = "slice" /\ current.et = "any" ->
                      LET ix == IndexInto(token, Len(current.e))
                      IN  IF ix.err # "ok" THEN [err |-> ix.err, val |-> NilV]
                          ELSE mapWalk(current.e[ix.i + 1], Tail(tokens))
               [] OTHER -> [err |-> "TypeMismatch", val |-> NilV]    \* cannot index into

\* jsptr.go:266
mapRetrieve(data, dstT, ptrspec) ==
    IF ptrspec = <<>> THEN AssignIfCompatible(dstT, data)
    ELSE LET p == New(ptrspec)
         IN  IF p.err # "ok" THEN Fail(p.err)
             ELSE LET r == mapWalk(data, p.ptr.tokens)
                  IN  IF r.err # "ok" THEN Fail(r.err)
                      ELSE AssignIfCompatible(dstT, r.val)

\* jsptr.go:309  [err, w, delegate, elem, rest]: with delegate, the element
\* and the remaining path handed to createSource and the nested source (:335-340)
SliceDone(r) == [err |-> r.err, w |-> r.w, delegate |-> FALSE, elem |-> NilV, rest |-> <<>>]

\* sliceRetrieve that assigns the indexed element before it delegates
sliceRetrieveAssignsFirst(data, dstT, ptrspec) ==
    IF ptrspec = <<>> THEN SliceDone(AssignIfCompatible(dstT, data))
    ELSE LET p == New(ptrspec)
         IN  IF p.err # "ok" THEN SliceDone(Fail(p.err))
             ELSE LET tokens == p.ptr.tokens
                      ix == IndexInto(tokens[1], Len(data.e))
                  IN  IF ix.err # "ok" THEN SliceDone(Fail(ix.err))
                      ELSE IF Len(tokens) = 1
                           THEN SliceDone(AssignIfCompatible(dstT, data.e[ix.i + 1]))
                           ELSE [err |-> "ok",
                                 w |-> AssignIfCompatible(dstT, data.e[ix.i + 1]).w,
                                 delegate |-> TRUE,
                                 elem |-> data.e[ix.i + 1],
                                 rest |-> <<"/">> \o Join(Tail(tokens))]

sliceRetrieve(data, dstT, ptrspec) ==
    IF ptrspec = <<>> THEN SliceDone(AssignIfCompatible(dstT, data))
    ELSE LET p == New(ptrspec)
         IN  IF p.err # "ok" THEN SliceDone(Fail(p.err))
             ELSE LET tokens == p.ptr.tokens
                      ix == IndexInto(tokens[1], Len(data.e))
                  IN  IF ix.err # "ok" THEN SliceDone(Fail(ix.err))
                      ELSE IF Len(tokens) = 1
                           THEN SliceDone(AssignIfCompatible(dstT, data.e[ix.i + 1]))
                           ELSE [err |-> "ok", w |-> <<>>, delegate |-> TRUE,
                                 elem |-> data.e[ix.i + 1],
                                 rest |-> <<"/">> \o Join(Tail(tokens))]

\* jsptr_test.go:398  the test suite's CustomSource: it looks up "custom_" + pattern[1:]
customRetrieve(target, dstT, ptrspec) ==
    LET p == New(ptrspec)
    IN  IF p.err # "ok" THEN Fail(p.err)
        ELSE IF ptrspec = <<>> THEN AssignIfCompatible(dstT, MapV("any", target.cm))
        ELSE LET key == <<"custom_">> \o Tail(Pattern(p.ptr))
             IN  IF key \in DOMAIN target.cm
                 THEN AssignIfCompatible(dstT, target.cm[key])
                 ELSE Fail("NotFound")

----------------------------------------------------------------------------
(* Record shapes (reflect.Type of structs).  A field is [name, anon,       *)
(* exported, tag, ty]; tag is the json tag split at commas (the empty tag  *)
(* splits into one empty part); ty is [kind, name], with name the struct   *)
(* type for kind "struct" and the pointed-to struct type for "ptr".        *)

Fld(name, anon, exported, tag, ty) ==
    [name |-> name, anon |-> anon, exported |-> exported, tag |-> tag, ty |-> ty]

NoTag == << <<>> >>
TStruct(name) == [kind |-> "struct", name |-> name]
TPtr(name) == [kind |-> "ptr", name |-> name]
TOther(kind) == [kind |-> kind, name |-> ""]

\*  type Inner struct { Z string `json:"b"` }
\*  type Emb struct { E int `json:"e"`; q int }
\*  type Foo struct {
\*      A Inner `json:"a"`; N int `json:"n,omitempty"`; S string; h int
\*      K int `json:"-"`; Emb; L []int `json:"b"`; M []any `json:",omitempty"` }
\*  type Outer struct { *Emb; V int `json:"v"`; P *Inner `json:"a"` }
\*  type D3 struct { X string `json:"a"`; Y string `json:"b"` }
\*  type D2 struct { D3 };  type D1 struct { D2 }
\*  type Deep struct { D1; W string `json:"e"` }
\*  type Node struct { *Node; V int `json:"a"` }
\*  type CustomSource struct { data map[string]any }      (jsptr_test.go:394)
Types ==
    [Inner |-> << Fld(<<"Z">>, FALSE, TRUE, << <<"b">> >>, TOther("string")) >>,
     Emb   |-> << Fld(<<"E">>, FALSE, TRUE, << <<"e">> >>, TOther("int")),
                  Fld(<<"q">>, FALSE, FALSE, NoTag, TOther("int")) >>,
     Foo   |-> << Fld(<<"A">>, FALSE, TRUE, << <<"a">> >>, TStruct("Inner")),
                  Fld(<<"N">>, FALSE, TRUE, << <<"n">>, <<"omitempty">> >>, TOther("int")),
                  Fld(<<"S">>, FALSE, TRUE, NoTag, TOther("string")),
                  Fld(<<"h">>, FALSE, FALSE, NoTag, TOther("int")),
                  Fld(<<"K">>, FALSE, TRUE, << <<"-">> >>, TOther("int")),
                  Fld(<<"Emb">>, TRUE, TRUE, NoTag, TStruct("Emb")),
                  Fld(<<"L">>, FALSE, TRUE, << <<"b">> >>, TOther("slice")),
                  Fld(<<"M">>, FALSE, TRUE, << <<>>, <<"omitempty">> >>, TOther("slice")) >>,
     Outer |-> << Fld(<<"Emb">>, TRUE, TRUE, NoTag, TPtr("Emb")),
                  Fld(<<"V">>, FALSE, TRUE, << <<"v">> >>, TOther("int")),
                  Fld(<<"P">>, FALSE, TRUE, << <<"a">> >>, TPtr("Inner")) >>,
     D3    |-> << Fld(<<"X">>, FALSE, TRUE, << <<"a">> >>, TOther("string")),
                  Fld(<<"Y">>, FALSE, TRUE, << <<"b">> >>, TOther("string")) >>,
     D2    |-> << Fld(<<"D3">>, TRUE, TRUE, NoTag, TStruct("D3")) >>,
     D1    |-> << Fld(<<"D2">>, TRUE, TRUE, NoTag, TStruct("D2")) >>,
     Deep  |-> << Fld(<<"D1">>, TRUE, TRUE, NoTag, TStruct("D1")),
                  Fld(<<"W">>, FALSE, TRUE, << <<"e">> >>, TOther("string")) >>,
     Node  |-> << Fld(<<"Node">>, TRUE, TRUE, NoTag, TPtr("Node")),
                  Fld(<<"V">>, FALSE, TRUE, << <<"a">> >>, TOther("int")) >>,
     CustomSource |-> << Fld(<<"data">>, FALSE, FALSE, NoTag, TOther("map")) >>]

TypeNames == DOMAIN Types

\* jsptr.go:358
FieldInfo(index, jsonName) == [index |-> index, jsonName |-> jsonName]

\* A []int as Go holds it: a backing array (by its number in the heap, 0 for
\* the nil slice) and a length; the capacity is the array's length.  The
\* heap is the sequence of the arrays allocated so far.
NilSlice == [arr |-> 0, len |-> 0]
Cap(heap, sl) == IF sl.arr = 0 THEN 0 ELSE Len(heap[sl.arr])
Elems(heap, sl) == IF sl.arr = 0 THEN <<>> ELSE SubSeq(heap[sl.arr], 1, sl.len)

\* runtime.growslice for one more int: 0 -> 1, then doubled
GrowCap(cap) == IF cap = 0 THEN 1 ELSE 2 * cap

\* jsptr.go:441  append(index, i): in place when the capacity allows it, else
\* into a new array with the elements copied
AppendSlice(heap, sl, x) ==
    IF sl.len < Cap(heap, sl)
    THEN [heap |-> [heap EXCEPT ![sl.arr][sl.len + 1] = x],
          sl |-> [arr |-> sl.arr, len |-> sl.len + 1]]
    ELSE LET newcap == GrowCap(Cap(heap, sl))
             array == [k \in 1..newcap |->
                          IF k <= sl.len THEN heap[sl.arr][k]
                          ELSE IF k = sl.len + 1 THEN x ELSE 0]
         IN  [heap |-> Append(heap, array),
              sl |-> [arr |-> Len(heap) + 1, len |-> sl.len + 1]]

\* jsptr.go:455-464  a field that gets an entry of its own
Visible(field) == field.exported /\ field.tag # << <<"-">> >>

\* jsptr.go:467-473  the name of the entry
JsonName(field) ==
    IF field.tag # NoTag /\ field.tag[1] # <<>> THEN field.tag[1] ELSE field.name

\* jsptr.go:444-449  an embedded struct or pointer to struct
Embedded(field) == field.anon /\ field.ty.kind \in {"struct", "ptr"}

\* jsptr.go:438  processFields(t, index, info) from position i on (positions
\* are 0-based).  st is [fields, heap, overflow]: info.fields with each index
\* as a slice, the heap, and whether the goroutine's stack was exhausted;
\* depth is the number of processFields frames on the stack.
RECURSIVE processFrom(_, _, _, _, _)
RECURSIVE processField(_, _, _, _, _)

\* the loop head, with the index and the state so far taken as values
processFrom(t, i, index, sofar, depth) ==
    CHOOSE r \in {processField(t, i, ix, st, depth) : ix \in {index}, st \in {sofar}} : TRUE

\* jsptr.go:439-479  one turn of the loop and the turns after it
processField(t, i, index, st, depth) ==
    IF st.overflow \/ i >= Len(Types[t]) THEN st
    ELSE LET field == Types[t][i + 1]
             a == AppendSlice(st.heap, index, i)                       \* :441
             fieldIndex == a.sl
             st1 == [st EXCEPT !.heap = a.heap]
         IN  IF field.anon                                             \* :444
             THEN IF Embedded(field)                                   \* :445-451
                  THEN IF depth >= MaxStackDepth
                       THEN [st1 EXCEPT !.overflow = TRUE]
                       ELSE processFrom(t, i + 1, index,
                                        processFrom(field.ty.name, 0, fieldIndex, st1,
                                                    depth + 1),
                                        depth)
                  ELSE processFrom(t, i + 1, index, st1, depth)
             ELSE IF ~Visible(field) THEN processFrom(t, i + 1, index, st1, depth)
             ELSE processFrom(t, i + 1, index,
                              [st1 EXCEPT !.fields =
                                  MapPut(st1.fields, JsonName(field),
                                         FieldInfo(fieldIndex, JsonName(field)))],
                              depth)

\* jsptr.go:432  processFields(t, nil, info) on an empty info
processCall(t) ==
    processFrom(t, 0, NilSlice,
                [fields |-> [x \in {} |-> FieldInfo(NilSlice, <<>>)], heap |-> <<>>,
                 overflow |-> FALSE], 1)

\* the name table processFields leaves: each index as the sequence its slice
\* holds when the call has returned
processFields(t) ==
    LET st == processCall(t)
    IN  [n \in DOMAIN st.fields |->
            FieldInfo(Elems(st.heap, st.fields[n].index), st.fields[n].jsonName)]

\* the call exhausts the stack instead of returning
StackOverflows(t) == processCall(t).overflow

\* jsptr.go:354  a *structInfo: id is the identity of the allocated value
StructInfo(id, fields) == [id |-> id, fields |-> fields]
NoInfo == StructInfo(0, [x \in {} |-> FieldInfo(<<>>, <<>>)])

\* reflect.Value.FieldByIndex: from the second step on, a pointer to a struct
\* is followed, and a nil one panics
RECURSIVE FieldByIndex(_, _, _)
FieldByIndex(val, index, first) ==
    IF Len(index) = 0 THEN [panic |-> FALSE, val |-> val]
    ELSE IF ~first /\ val.k = "nilptr" THEN [panic |-> TRUE, val |-> NilV]
    ELSE LET v == IF ~first /\ val.k = "ptr" THEN val.p ELSE val
         IN  FieldByIndex(v.fl[index[1] + 1], Tail(index), FALSE)

\* jsptr.go:387-399  the value getField looks into: pointers followed, then
\* the struct check
RECURSIVE Indirect(_)
Indirect(obj) ==
    IF obj.k = "nilptr" THEN [err |-> "TypeMismatch", val |-> NilV]  \* field of nil pointer
    ELSE IF obj.k \in {"ptr", "custom"} THEN
             IF obj.k = "ptr" THEN Indirect(obj.p)
             ELSE [err |-> "ok", val |-> StructV("CustomSource", <<MapV("any", obj.cm)>>)]
    ELSE IF obj.k # "struct" THEN [err |-> "TypeMismatch", val |-> NilV]  \* non-struct
    ELSE [err |-> "ok", val |-> obj]

----------------------------------------------------------------------------
(* The values and pointers the runs resolve.                               *)

InnerVal == StructV("Inner", <<StrV("test")>>)
EmbVal == StructV("Emb", <<IntV(5), IntV(6)>>)
IntList == SliceV("int", <<IntV(1), IntV(2)>>)               \* []int{1, 2}
AnyList == SliceV("any", <<MapV("any", [x \in {<<"b">>} |-> BoolV(TRUE)]), IntV(1)>>)
FooVal ==
    StructV("Foo", <<InnerVal, IntV(42), StrV("default"), IntV(7), IntV(8), EmbVal,
                     IntList, AnyList>>)
OuterVal == StructV("Outer", <<PtrV(EmbVal), IntV(9), PtrV(InnerVal)>>)
OuterNil == StructV("Outer", <<NilPtrV("Emb"), IntV(9), NilPtrV("Inner")>>)
NodeVal == StructV("Node", <<NilPtrV("Node"), IntV(1)>>)
DeepVal ==
    StructV("Deep", <<StructV("D1", <<StructV("D2", <<StructV("D3", <<StrV("x"), StrV("y")>>)>>)>>),
                      StrV("w")>>)

\* map[string]any{"a/a": "v1", "a~a": "v2", "a~1a": "v3"}
EscMap ==
    MapV("any", [x \in {<<"a", "/", "a">>, <<"a", "~", "a">>, <<"a", "~", "1", "a">>} |->
                    CASE x = <<"a", "/", "a">> -> StrV("v1")
                      [] x = <<"a", "~", "a">> -> StrV("v2")
                      [] x = <<"a", "~", "1", "a">> -> StrV("v3")])

\* map[string]any{"a": []any{map[string]any{"b": true}, 1}, "b": []int{1, 2},
\*                "e": Inner{...}, "a/a": map[string]int{"a": 1}}
NestMap ==
    MapV("any", [x \in {<<"a">>, <<"b">>, <<"e">>, <<"a", "/", "a">>} |->
                    CASE x = <<"a">> -> AnyList
                      [] x = <<"b">> -> IntList
                      [] x = <<"e">> -> InnerVal
                      [] x = <<"a", "/", "a">> -> MapV("int", [y \in {<<"a">>} |-> IntV(1)])])

CustomVal == CustomV([x \in {<<"custom_", "a">>} |-> StrV("custom value")])

ScalarTargets == {IntV(42), BoolV(TRUE), FloatV(3), NilV, NilPtrV("Foo"), PtrV(IntV(42))}

TextTargets ==
    {StrV("hello"), StrV(DocNum), StrV(DocArr), BytesV(DocEsc), BytesV(DocNest), BytesV(DocBad),
     BytesV(DocDup)}

KeyedTargets ==
    {EscMap, NestMap, MapV("int", [x \in {<<"a">>} |-> IntV(1)]),
     IntMapV([x \in {1, 2} |-> StrV("one")]), PtrV(NestMap)}

IndexedTargets ==
    {AnyList, IntList, ArrayV("int", <<IntV(10), IntV(20)>>),
     SliceV("slice", <<IntList, IntList>>),                   \* [][]int
     SliceV("any", <<AnyList, NestMap, StrV("x"), CustomVal, FooVal, NilV>>)}

RecordTargets == {FooVal, PtrV(FooVal), OuterVal, OuterNil, DeepVal}

Targets ==
    ScalarTargets \cup TextTargets \cup KeyedTargets \cup IndexedTargets
        \cup RecordTargets \cup {CustomVal}

DstTypes == {"any", "string"}

\* raw (still escaped) tokens
TokenPool ==
    {<<"a">>, <<"b">>, <<"e">>, <<"0">>, <<"5">>, <<"-", "1">>,
     <<"a", "~", "1", "a">>, <<"0", "~", "1", "b">>}

PointerTexts == {TextOf(ts) : ts \in SeqsUpTo(TokenPool, MaxTokens)}

Input(target, text, dstT) == [target |-> target, text |-> text, dstT |-> dstT]

Inputs == {Input(t, p, d) : t \in Targets, p \in PointerTexts, d \in DstTypes}

\* the escaping runs: every raw token up to MaxRawLen against the two
\* sources that hold the keys "a/a", "a~a" and "a~1a"
RawTokens == SeqsUpTo({"~", "0", "1", "a"}, MaxRawLen)

EscapeInputs ==
    {Input(t, <<"/">> \o tok, "any") : t \in {EscMap, BytesV(DocEsc)}, tok \in RawTokens}

\* the runs with a record that embeds a reference to its own type
CyclicInputs ==
    {Input(NodeVal, TextOf(<< <<"a">> >>), "any"),
     Input(InnerVal, TextOf(<< <<"b">> >>), "any")}

\* the concurrent runs: record targets and the pointers into them
CacheInputs ==
    {Input(FooVal, TextOf(<< <<"a">>, <<"b">> >>), "any"),
     Input(PtrV(FooVal), TextOf(<< <<"e">> >>), "any"),
     Input(InnerVal, TextOf(<< <<"b">> >>), "string")}

----------------------------------------------------------------------------
(* The goroutines.  g[th] is the Retrieve call goroutine th is in:         *)
(*   pc       where it is: idle, createSource, engine, the steps of the    *)
(*            struct engine and of getStructInfo, done                     *)
(*   target, pattern, dstT   the call's arguments (pattern is p.pattern)   *)
(*   dst, writes   the destination's content and how often it was written  *)
(*   err      the error kind returned ("ok" for nil, "PANIC" for a panic)  *)
(*   eng, src, spec   the source created last, its data, its ptrspec       *)
(*   tokens, current, typ, info   locals of the struct engine              *)
(*   trace    the sources created during the call, in order                *)
(*   stack    the sliceSource calls waiting for a nested source: the data  *)
(*            and ptrspec of each                                          *)
(*   clog     the ptrspecs handed to the target's own RetrieveJSONPointer  *)

Threads == 1..NumThreads

OldDst == StrV("old")

IdleG ==
    [pc |-> "idle", target |-> NilV, pattern |-> <<>>, dstT |-> "any", dst |-> OldDst,
     writes |-> 0, err |-> "ok", eng |-> "none", src |-> NilV, spec |-> <<>>,
     tokens |-> <<>>, current |-> NilV, typ |-> "", info |-> NoInfo,
     trace |-> <<>>, stack |-> <<>>, clog |-> <<>>]

Set(th, rec) == g' = [g EXCEPT ![th] = rec]

\* the values w are written to the destination, in order
Wrote(rec, w) ==
    [rec EXCEPT !.dst = IF Len(w) = 0 THEN rec.dst ELSE w[Len(w)],
                !.writes = rec.writes + Len(w)]

\* the call returns r.err after the writes r.w
Finished(rec, r) == [Wrote(rec, r.w) EXCEPT !.pc = "done", !.err = r.err]

CacheVars == <<structCache, readers, writer, built>>
EnvVars == <<pathspec, newResult, assignsNil, inputs>>

\* jsptr.go:56  a caller enters Retrieve with a Pointer that New returned
Retrieve(th) ==
    /\ g[th].pc = "idle"
    /\ \E in \in inputs[th] :
          LET p == New(in.text).ptr
          IN  Set(th, [IdleG EXCEPT !.pc = "createSource", !.target = in.target,
                                    !.pattern = Pattern(p), !.dstT = in.dstT,
                                    !.src = in.target, !.spec = Pattern(p)])
    /\ UNCHANGED <<CacheVars, EnvVars>>

\* jsptr.go:58 and :336  createSource on the target (or on the indexed element)
CreateSourceStep(th) ==
    /\ g[th].pc = "createSource"
    /\ LET s == createSource(g[th].src)
       IN  IF s.err # "ok"
           THEN Set(th, Finished([g[th] EXCEPT !.eng = s.eng], Fail(s.err)))
           ELSE Set(th, [g[th] EXCEPT !.pc = "engine", !.eng = s.eng, !.src = s.data,
                                      !.trace = Append(g[th].trace, s.eng)])
    /\ UNCHANGED <<CacheVars, EnvVars>>

\* jsptr.go:62 and :340  source.RetrieveJSONPointer(dst, ptrspec).  The struct
\* engine (jsptr.go:363-374) goes on to its token loop.
RunEngine(th) ==
    /\ g[th].pc = "engine"
    /\ LET c == g[th]
       IN  CASE c.eng = "scalar" -> Set(th, Finished(c, scalarRetrieve(c.src, c.dstT, c.spec)))
             [] c.eng = "json" -> Set(th, Finished(c, jsonRetrieve(c.src, c.dstT, c.spec)))
             [] c.eng = "map" -> Set(th, Finished(c, mapRetrieve(c.src, c.dstT, c.spec)))
             [] c.eng = "custom" ->
                    Set(th, Finished([c EXCEPT !.clog = Append(c.clog, c.spec)],
                                     customRetrieve(c.src, c.dstT, c.spec)))
             [] c.eng = "slice" ->
                    LET r == sliceRetrieve(c.src, c.dstT, c.spec)
                    IN  IF r.delegate
                        THEN Set(th, [Wrote(c, r.w) EXCEPT
                                         !.pc = "createSource", !.src = r.elem,
                                         !.spec = r.rest,
                                         !.stack = Append(c.stack,
                                                          [data |-> c.src, spec |-> c.spec])])
                        ELSE Set(th, Finished(c, r))
             [] c.eng = "struct" ->
                    IF c.spec = <<>>
                    THEN Set(th, Finished(c, AssignIfCompatible(c.dstT, c.src)))
                    ELSE LET p == New(c.spec)
                         IN  IF p.err # "ok" THEN Set(th, Finished(c, Fail(p.err)))
                             ELSE Set(th, [c EXCEPT !.pc = "field", !.current = c.src,
                                                    !.tokens = p.ptr.tokens])
    /\ UNCHANGED <<CacheVars, EnvVars>>

\* jsptr.go:376-383 and getField :387-399  the loop head: after the last token
\* the current value is assigned; else getField looks into the current value
FieldLoop(th) ==
    /\ g[th].pc = "field"
    /\ LET c == g[th]
       IN  IF Len(c.tokens) = 0
           THEN Set(th, Finished(c, AssignIfCompatible(c.dstT, c.current)))
           ELSE LET v == Indirect(c.current)
                IN  IF v.err # "ok" THEN Set(th, Finished(c, Fail(v.err)))
                    ELSE Set(th, [c EXCEPT !.pc = "rlock", !.current = v.val,
                                           !.typ = v.val.t])
    /\ UNCHANGED <<CacheVars, EnvVars>>

\* the last step of the call: the caller has the result and may call again
Return(th) ==
    /\ g[th].pc = "done"
    /\ Set(th, IdleG)
    /\ UNCHANGED <<CacheVars, EnvVars>>

----------------------------------------------------------------------------
(* getStructInfo (jsptr.go:411), one step per lock operation and per       *)
(* access to the cache.  built.allocs counts the structInfo values made,   *)
(* built.ins[t] lists the ids stored under t, built.ret[t] the ids that    *)
(* getStructInfo(t) returned.                                              *)

Returned(t, id) == [built EXCEPT !.ret[t] = built.ret[t] \cup {id}]

\* :412  cacheMutex.RLock()
RLock(th) ==
    /\ g[th].pc = "rlock"
    /\ writer = 0
    /\ readers' = readers \cup {th}
    /\ Set(th, [g[th] EXCEPT !.pc = "rcheck"])
    /\ UNCHANGED <<structCache, writer, built, EnvVars>>

\* :413  info, exists := structCache[t]
RCheck(th) ==
    /\ g[th].pc = "rcheck"
    /\ LET c == g[th]
       IN  IF c.typ \in DOMAIN structCache
           THEN Set(th, [c EXCEPT !.pc = "rhit", !.info = structCache[c.typ]])
           ELSE Set(th, [c EXCEPT !.pc = "rmiss"])
    /\ UNCHANGED <<CacheVars, EnvVars>>

\* :414-415 and :417  cacheMutex.RUnlock(), then return info or go on to Lock
RUnlock(th) ==
    /\ g[th].pc \in {"rhit", "rmiss"}
    /\ readers' = readers \ {th}
    /\ IF g[th].pc = "rhit"
       THEN /\ Set(th, [g[th] EXCEPT !.pc = "lookup"])
            /\ built' = Returned(g[th].typ, g[th].info.id)
       ELSE /\ Set(th, [g[th] EXCEPT !.pc = "lock"])
            /\ UNCHANGED built
    /\ UNCHANGED <<structCache, writer, EnvVars>>

\* a Lock that does not wait for the readers to leave
LockIgnoresReaders(th) ==
    /\ g[th].pc = "lock"
    /\ writer = 0
    /\ writer' = th
    /\ Set(th, [g[th] EXCEPT !.pc = "recheck"])
    /\ UNCHANGED <<structCache, readers, built, EnvVars>>

\* :419  cacheMutex.Lock()
Lock(th) ==
    /\ g[th].pc = "lock"
    /\ writer = 0
    /\ readers = {}
    /\ writer' = th
    /\ Set(th, [g[th] EXCEPT !.pc = "recheck"])
    /\ UNCHANGED <<structCache, readers, built, EnvVars>>

\* getStructInfo without the second look: a caller that missed builds
RecheckAlwaysBuilds(th) ==
    /\ g[th].pc = "recheck"
    /\ Set(th, [g[th] EXCEPT !.pc = "build"])
    /\ UNCHANGED <<CacheVars, EnvVars>>

\* :423-425  the second look, under the write lock
Recheck(th) ==
    /\ g[th].pc = "recheck"
    /\ LET c == g[th]
       IN  IF c.typ \in DOMAIN structCache
           THEN Set(th, [c EXCEPT !.pc = "unlock", !.info = structCache[c.typ]])
           ELSE Set(th, [c EXCEPT !.pc = "build"])
    /\ UNCHANGED <<CacheVars, EnvVars>>

\* :427-432  a new structInfo, filled by processFields.  A recursion that
\* exhausts the stack is a fatal error of the runtime: the call does not
\* return, no deferred call runs, the process ends.
Build(th) ==
    /\ g[th].pc = "build"
    /\ IF StackOverflows(g[th].typ)
       THEN Set(th, [g[th] EXCEPT !.pc = "fatal", !.err = "FATAL"])
       ELSE Set(th, [g[th] EXCEPT !.pc = "insert",
                                  !.info = StructInfo(built.allocs + 1,
                                                      processFields(g[th].typ))])
    /\ built' = [built EXCEPT !.allocs = built.allocs + 1]
    /\ UNCHANGED <<structCache, readers, writer, EnvVars>>

\* an insertion that evicts every other entry
CacheInsertEvicts(cache, t, info) == [x \in {t} |-> info]

\* :434  structCache[t] = info
CacheInsert(cache, t, info) == MapPut(cache, t, info)

Insert(th) ==
    /\ g[th].pc = "insert"
    /\ structCache' = CacheInsert(structCache, g[th].typ, g[th].info)
    /\ built' = [built EXCEPT !.ins[g[th].typ] = Append(built.ins[g[th].typ], g[th].info.id)]
    /\ Set(th, [g[th] EXCEPT !.pc = "unlock"])
    /\ UNCHANGED <<readers, writer, EnvVars>>

\* :420  the deferred cacheMutex.Unlock(), and the return of info
Unlock(th) ==
    /\ g[th].pc = "unlock"
    /\ writer' = 0
    /\ built' = Returned(g[th].typ, g[th].info.id)
    /\ Set(th, [g[th] EXCEPT !.pc = "lookup"])
    /\ UNCHANGED <<structCache, readers, EnvVars>>

\* jsptr.go:402-408  the rest of getField: the name is looked up in the
\* table and the field is fetched by its index
Lookup(th) ==
    /\ g[th].pc = "lookup"
    /\ LET c == g[th]
           fieldName == c.tokens[1]
       IN  IF fieldName \notin DOMAIN c.info.fields
           THEN Set(th, Finished(c, Fail("NotFound")))
           ELSE LET fv == FieldByIndex(c.current, c.info.fields[fieldName].index, TRUE)
                IN  IF fv.panic THEN Set(th, Finished(c, Fail("PANIC")))
                    ELSE Set(th, [c EXCEPT !.pc = "field", !.current = fv.val,
                                           !.tokens = Tail(c.tokens)])
    /\ UNCHANGED <<CacheVars, EnvVars>>

----------------------------------------------------------------------------
(* The tokenizer run: New applied to one text.                             *)

Pending == [err |-> "pending", ptr |-> NoPointer]

CallNew ==
    /\ newResult = Pending
    /\ newResult' = New(pathspec)
    /\ UNCHANGED <<pathspec, g, CacheVars, assignsNil, inputs>>

----------------------------------------------------------------------------
(* Specifications *)

CacheInit ==
    /\ structCache = [x \in {} |-> NoInfo]
    /\ readers = {}
    /\ writer = 0
    /\ built = [allocs |-> 0, ins |-> [t \in TypeNames |-> <<>>],
                ret |-> [t \in TypeNames |-> {}]]

NoInputs == [th \in Threads |-> {}]

\* concurrent goroutines resolving records
Init ==
    /\ pathspec = <<>>
    /\ newResult = Pending
    /\ g = [th \in Threads |-> IdleG]
    /\ CacheInit
    /\ assignsNil \in BOOLEAN
    /\ inputs = [th \in Threads |-> CacheInputs]

\* concurrent goroutines resolving records, one of a cyclic shape
InitCyclic ==
    /\ pathspec = <<>>
    /\ newResult = Pending
    /\ g = [th \in Threads |-> IdleG]
    /\ CacheInit
    /\ assignsNil \in BOOLEAN
    /\ inputs = [th \in Threads |-> CyclicInputs]

\* one goroutine making one call, again and again
InitRetrieve ==
    /\ pathspec = <<>>
    /\ newResult = Pending
    /\ g = [th \in Threads |-> IdleG]
    /\ CacheInit
    /\ assignsNil \in BOOLEAN
    /\ \E in \in Inputs : inputs = [NoInputs EXCEPT ![1] = {in}]

InitEscape ==
    /\ pathspec = <<>>
    /\ newResult = Pending
    /\ g = [th \in Threads |-> IdleG]
    /\ CacheInit
    /\ assignsNil \in BOOLEAN
    /\ \E in \in EscapeInputs : inputs = [NoInputs EXCEPT ![1] = {in}]

InitNew ==
    /\ pathspec \in Texts
    /\ newResult = Pending
    /\ g = [th \in Threads |-> IdleG]
    /\ CacheInit
    /\ assignsNil = FALSE
    /\ inputs = NoInputs

EngineNext(th) ==
    \/ Retrieve(th)
    \/ CreateSourceStep(th)
    \/ RunEngine(th)
    \/ Return(th)

StructNext(th) ==
    \/ FieldLoop(th)
    \/ RLock(th)
    \/ RCheck(th)
    \/ RUnlock(th)
    \/ Lock(th)
    \/ Recheck(th)
    \/ Build(th)
    \/ Insert(th)
    \/ Unlock(th)
    \/ Lookup(th)

\* a fatal error of the runtime has ended the process
Crashed == \E th \in Threads : g[th].pc = "fatal"

Next == ~Crashed /\ \E th \in Threads : EngineNext(th) \/ StructNext(th)

NextEscape == \E th \in Threads : EngineNext(th)

NextNew == CallNew

Spec == Init /\ [][Next]_vars

SpecRetrieve == InitRetrieve /\ [][Next]_vars

\* the scheduler runs every goroutine that can take a step inside
\* structSource and getStructInfo
SpecCyclic ==
    InitCyclic /\ [][Next]_vars /\ \A th \in Threads : WF_vars(~Crashed /\ StructNext(th))

SpecEscape == InitEscape /\ [][NextEscape]_vars

SpecNew == InitNew /\ [][NextNew]_vars

----------------------------------------------------------------------------
(* Properties of the tokenizer (checked under SpecNew)                     *)

NewReturned == newResult # Pending

\* C1: for every pointer text that is empty or begins with "/", New succeeds
\* and the Pointer's Pattern() is that text, character for character.
C1_PatternVerbatim ==
    NewReturned /\ (pathspec = <<>> \/ HasSlashPrefix(pathspec))
        => /\ newResult.err = "ok"
           /\ ~newResult.ptr.isnil
           /\ Pattern(newResult.ptr) = pathspec

\* New has returned for "/a~1": the token is decoded to "a/", the pattern is not
C1_Witness ==
    /\ NewReturned
    /\ pathspec = <<"/", "a", "~", "1">>
    /\ newResult.err = "ok"
    /\ newResult.ptr.tokens = << <<"a", "/">> >>
    /\ Pattern(newResult.ptr) = <<"/", "a", "~", "1">>

\* C8: for every non-empty pointer text that does not start with "/", New
\* fails with MalformedPointer and returns no Pointer.
C8_MalformedRejected ==
    NewReturned /\ pathspec # <<>> /\ ~HasSlashPrefix(pathspec)
        => /\ newResult.err = "MalformedPointer"
           /\ newResult.ptr.isnil

\* New has returned for "a/a", which has a "/" but not in front
C8_Witness ==
    /\ NewReturned
    /\ pathspec = <<"a", "/", "a">>
    /\ newResult.err = "MalformedPointer"
    /\ newResult.ptr = NoPointer

----------------------------------------------------------------------------
(* Properties of the engines (checked under SpecEscape and SpecRetrieve)   *)

Done(c) == c.pc = "done"

\* the raw token of a one-token pattern
RawToken(c) == Tail(c.pattern)

\* the call reached the value stored under the key whose value is v
Reached(c, v) == Done(c) /\ c.err = "ok" /\ c.dst = StrV(v)

\* key reached by token and by no other token
OnlyVia(c, v, token) ==
    /\ Done(c) /\ RawToken(c) = token => Reached(c, v)
    /\ Reached(c, v) => RawToken(c) = token

\* C3: in a keyed source, the key "a/a" is reached by the token a~1a and by
\* no other token, the key "a~a" by a~0a and by no other, and the key "a~1a"
\* by a~01a and by no other.
C3_OnlyEscapedToken ==
    \A th \in Threads :
        /\ OnlyVia(g[th], "v1", <<"a", "~", "1", "a">>)
        /\ OnlyVia(g[th], "v2", <<"a", "~", "0", "a">>)
        /\ OnlyVia(g[th], "v3", <<"a", "~", "0", "1", "a">>)

\* the value a chain of references ends in
RECURSIVE Referent(_)
Referent(v) == IF v.k = "ptr" THEN Referent(v.p) ELSE v

\* the shapes the resolver wraps as they are
IdentityShape(v) ==
    \/ v.k \in {"int", "bool", "float64", "nilptr", "struct"}
    \/ v.k \in {"map", "slice"} /\ v.et = "any"

\* the kind of generic value a parsed node converts to
GenericKind(t) ==
    CASE t = "object" -> "map" [] t = "array" -> "slice" [] t = "number" -> "float64"
      [] t = "string" -> "string" [] t \in {"true", "false"} -> "bool" [] t = "null" -> "nil"

RootCall(c) == Done(c) /\ c.pattern = <<>> /\ c.dstT = "any"

Range(seq) == {seq[i] : i \in 1..Len(seq)}

\* C4: in the Scalar, Keyed, Indexed, Record and JSON-Text engines, a call
\* that returns an error leaves the destination as it was; the destination
\* is written at most once, and only as the last step of a call that succeeds.
C4_NoPartialWrite ==
    \A th \in Threads :
        LET c == g[th]
        IN  "custom" \notin Range(c.trace) =>
              /\ c.writes <= 1
              /\ c.writes = 1 => Done(c) /\ c.err = "ok"
              /\ c.writes = 0 => c.dst = OldDst
              /\ Done(c) /\ c.err # "ok" => c.writes = 0 /\ c.dst = OldDst

\* a call through a list into a map found its value and failed at the
\* assignment: the destination is as before
C4_Witness ==
    \E th \in Threads :
        /\ Done(g[th])
        /\ g[th].trace = <<"slice", "map">>
        /\ g[th].dstT = "string"
        /\ g[th].err = "TypeMismatch"
        /\ g[th].dst = OldDst

\* C5: for a target the resolver wraps as a scalar (a nil target and a nil
\* reference among them) every non-empty pointer fails with TypeMismatch;
\* only the empty pointer retrieves the value.
C5_ScalarOnlyRoot ==
    \A th \in Threads :
        LET c == g[th]
            s == createSource(c.target)
        IN  /\ Done(c) /\ s.err = "ok" /\ s.eng = "scalar" /\ c.pattern # <<>>
                => c.err = "TypeMismatch" /\ c.dst = OldDst
            /\ Done(c) /\ c.eng = "scalar" /\ c.spec # <<>>
                => c.err = "TypeMismatch" /\ c.dst = OldDst
            /\ Done(c) /\ c.eng = "scalar" /\ c.err = "ok"
                => c.spec = <<>> /\ c.dst = c.src

\* a nil *Foo was asked for "/a" and the call failed with TypeMismatch
C5_Witness ==
    \E th \in Threads :
        /\ Done(g[th])
        /\ g[th].target = NilPtrV("Foo")
        /\ g[th].pattern = <<"/", "a">>
        /\ g[th].err = "TypeMismatch"

\* what the indexing rule says of a token that is no valid position of a
\* list of the given length
IndexRule(token, length, err) ==
    LET a == Atoi(token)
    IN  /\ ~a.ok => err = "TypeMismatch"
        /\ a.ok /\ (a.n < 0 \/ a.n >= length) => err = "OutOfBounds"

ValidIndex(token, length) ==
    LET a == Atoi(token) IN a.ok /\ a.n >= 0 /\ a.n < length

AnyListValue(v) == v.k \in {"slice", "array"}
GenericList(v) == v.k = "slice" /\ v.et = "any"
TypedList(v) == AnyListValue(v) /\ ~GenericList(v)

\* the tokens the engine that ended the call was given
EngineTokens(c) == New(c.spec).ptr.tokens
EngineCall(c, eng) == Done(c) /\ c.eng = eng /\ c.spec # <<>> /\ New(c.spec).err = "ok"

\* Keyed engine: every list the walk arrives at follows the rule
KeyedRule(c, IsList(_)) ==
    EngineCall(c, "map") =>
        \A i \in 0..(Len(EngineTokens(c)) - 1) :
            LET r == mapWalk(c.src, SubSeq(EngineTokens(c), 1, i))
            IN  r.err = "ok" /\ IsList(r.val)
                    => IndexRule(EngineTokens(c)[i + 1], Len(r.val.e), c.err)

\* Keyed engine: a typed list the walk arrives at cannot be indexed
KeyedTypedRule(c) ==
    EngineCall(c, "map") =>
        \A i \in 0..(Len(EngineTokens(c)) - 1) :
            LET r == mapWalk(c.src, SubSeq(EngineTokens(c), 1, i))
            IN  r.err = "ok" /\ TypedList(r.val) => c.err = "TypeMismatch"

\* JSON-Text engine: every array node the walk arrives at follows the rule
JsonRule(c) ==
    EngineCall(c, "json") =>
        \A i \in 0..(Len(EngineTokens(c)) - 1) :
            LET r == jsonWalk(c.src, SubSeq(EngineTokens(c), 1, i))
            IN  r.err = "ok" /\ r.val.t = "array"
                    => IndexRule(EngineTokens(c)[i + 1], Len(r.val.a), c.err)

\* Indexed engine: the list it wraps follows the rule, and it delegated
\* only past a valid position
IndexedRule(c) ==
    /\ EngineCall(c, "slice") => IndexRule(EngineTokens(c)[1], Len(c.src.e), c.err)
    /\ \A i \in 1..Len(c.stack) :
           ValidIndex(New(c.stack[i].spec).ptr.tokens[1], Len(c.stack[i].data.e))

\* Record engine: the call ended at a list with a token left
RecordAtList(c) ==
    Done(c) /\ c.eng = "struct" /\ Len(c.tokens) > 0 /\ AnyListValue(c.current)

C7_CustomResolverOnly ==
    \A th \in Threads :
        LET c == g[th]
        IN  c.pc # "idle" /\ c.target.k = "custom" =>
              /\ c.trace \in {<<>>, <<"custom">>}
              /\ Len(c.clog) <= 1
              /\ Done(c) =>
                    /\ c.trace = <<"custom">>
                    /\ c.clog = <<c.pattern>>
                    /\ LET r == customRetrieve(c.target, c.dstT, c.pattern)
                       IN  /\ c.err = r.err
                           /\ c.dst = IF r.w = <<>> THEN OldDst ELSE r.w[Len(r.w)]

\* the custom resolver answered "/a" with its own entry
C7_Witness ==
    \E th \in Threads :
        /\ Done(g[th])
        /\ g[th].target = CustomVal
        /\ g[th].pattern = <<"/", "a">>
        /\ g[th].clog = <<g[th].pattern>>
        /\ g[th].dst = StrV("custom value")

----------------------------------------------------------------------------
(* Properties of the Field Descriptor Cache, under Spec.                   *)

\* the callers that built a table for t and have not inserted it yet
Building(t) == {th \in Threads : g[th].pc = "insert" /\ g[th].typ = t}

\* C9: under every interleaving, the table of a record shape is built and
\* inserted at most once (a caller that finds the entry at its second look
\* does not build), and every caller is returned the same structInfo.
C9_BuiltOnce ==
    \A t \in TypeNames :
        /\ Len(built.ins[t]) + Cardinality(Building(t)) <= 1
        /\ Cardinality(built.ret[t]) <= 1
        /\ built.ret[t] \subseteq Range(built.ins[t])
        /\ \A th \in Threads :
               g[th].pc \in {"build", "insert"} /\ g[th].typ = t
                   => t \notin DOMAIN structCache /\ writer = th

\* a caller that missed under the read lock holds the write lock and finds
\* the entry a racer inserted
C9_Witness ==
    \E th \in Threads :
        /\ g[th].pc = "recheck"
        /\ g[th].typ \in DOMAIN structCache
        /\ Len(built.ins[g[th].typ]) = 1

\* C10: the cache is empty at the start, and no step removes an entry or
\* changes the structInfo stored under a shape.
C10_AppendOnly ==
    /\ DOMAIN structCache = {}
    /\ [][\A t \in DOMAIN structCache :
              t \in DOMAIN structCache' /\ structCache'[t] = structCache[t]]_vars

\* two shapes have entries: the second insertion kept the first
C10_Witness ==
    /\ Cardinality(DOMAIN structCache) >= 2
    /\ \A t \in DOMAIN structCache : structCache[t].id = built.ins[t][1]

----------------------------------------------------------------------------
(* Delegation by the Indexed engine, under SpecRetrieve.                   *)

\* the escaped form of a token: "~" as "~0", "/" as "~1"
RECURSIVE Escape(_)
Escape(token) ==
    IF Len(token) = 0 THEN <<>>
    ELSE (CASE token[1] = "~" -> <<"~", "0">>
            [] token[1] = "/" -> <<"~", "1">>
            [] OTHER -> <<token[1]>>) \o Escape(Tail(token))

\* the pointer text whose decoded tokens are the given ones
RECURSIVE EscText(_)
EscText(tokens) ==
    IF Len(tokens) = 0 THEN <<>>
    ELSE <<"/">> \o Escape(tokens[1]) \o EscText(Tail(tokens))

\* Retrieve as a function, for targets resolved without the Record engine
\* (whose result is "record"): createSource, then the engine, then the
\* nested source where the Indexed engine delegates
RECURSIVE Resolve(_, _, _)
Resolve(target, dstT, ptrspec) ==
    LET s == createSource(target)
    IN  IF s.err # "ok" THEN Fail(s.err)
        ELSE CASE s.eng = "scalar" -> scalarRetrieve(s.data, dstT, ptrspec)
               [] s.eng = "json" -> jsonRetrieve(s.data, dstT, ptrspec)
               [] s.eng = "map" -> mapRetrieve(s.data, dstT, ptrspec)
               [] s.eng = "custom" -> customRetrieve(s.data, dstT, ptrspec)
               [] s.eng = "slice" ->
                      LET r == sliceRetrieve(s.data, dstT, ptrspec)
                      IN  IF r.delegate THEN Resolve(r.elem, dstT, r.rest)
                          ELSE [err |-> r.err, w |-> r.w]
               [] s.eng = "struct" -> Fail("record")

\* the outcome of a finished call is the result r
SameOutcome(c, r) ==
    /\ c.err = r.err
    /\ c.dst = IF r.w = <<>> THEN OldDst ELSE r.w[Len(r.w)]

\* C11: a call that the Indexed engine delegated with the decoded tokens
\* [i, t1, ..., tn] ends as the resolution of element i with a pointer whose
\* decoded tokens are t1, ..., tn ends, whatever the tokens contain.
C11_DelegationKeepsTokens ==
    \A th \in Threads :
        LET c == g[th]
        IN  Done(c) /\ c.stack # <<>> /\ "struct" \notin Range(c.trace) =>
              LET tokens == New(c.stack[1].spec).ptr.tokens
                  elem == c.stack[1].data.e[Atoi(tokens[1]).n + 1]
                  r == Resolve(elem, c.dstT, EscText(Tail(tokens)))
              IN  r.err # "record" => SameOutcome(c, r)

----------------------------------------------------------------------------
(* The name tables of records, under SpecRetrieve.                         *)

\* the visible fields of t with the positions that lead to each from the
\* outer record: pairs <<name, path>>
RECURSIVE OwnPaths(_, _, _)
OwnPaths(t, prefix, depth) ==
    UNION { LET field == Types[t][i + 1]
            IN  IF field.anon
                THEN IF Embedded(field) /\ depth < MaxStackDepth
                     THEN OwnPaths(field.ty.name, Append(prefix, i), depth + 1)
                     ELSE {}
                ELSE IF Visible(field) THEN {<<JsonName(field), Append(prefix, i)>>}
                ELSE {}
          : i \in 0..(Len(Types[t]) - 1) }

\* C12: for every record shape in the cache and every name in its table, the
\* stored index is the list of positions that leads from the outer record to
\* a field of that name, at every embedding depth; a call with the name as
\* its only token yields the value of a field of that name.
C12_AccessPathOwnField ==
    /\ \A t \in DOMAIN structCache :
           \A n \in DOMAIN structCache[t].fields :
               <<n, structCache[t].fields[n].index>> \in OwnPaths(t, <<>>, 1)
    /\ \A th \in Threads :
           LET c == g[th]
           IN  Done(c) /\ c.target.k = "struct" /\ c.err = "ok" /\ c.dstT = "any"
                   /\ Len(New(c.pattern).ptr.tokens) = 1
                   => \E pr \in OwnPaths(c.target.t, <<>>, 1) :
                          /\ pr[1] = New(c.pattern).ptr.tokens[1]
                          /\ c.dst = FieldByIndex(c.target, pr[2], TRUE).val

----------------------------------------------------------------------------
(* The order of the decoding passes, under SpecEscape.                     *)

\* one scan from the left that translates each ~0 and ~1 of the token once
RECURSIVE DecodeLeftToRight(_)
DecodeLeftToRight(token) ==
    IF Len(token) = 0 THEN <<>>
    ELSE IF Len(token) >= 2 /\ token[1] = "~" /\ token[2] \in {"0", "1"}
         THEN <<IF token[2] = "0" THEN "~" ELSE "/">>
                  \o DecodeLeftToRight(SubSeq(token, 3, Len(token)))
         ELSE <<token[1]>> \o DecodeLeftToRight(Tail(token))

\* the number of ~0 sequences in a text
Tilde0s(s) == Cardinality({p \in 1..(Len(s) - 1) : s[p] = "~" /\ s[p + 1] = "0"})

\* the first pass leaves a ~0 that the token did not have
PassOneMakesTilde0(token) == Tilde0s(DecodeSlashes(token)) > Tilde0s(token)

\* the tokens of the calls under way
CallTokens == {RawToken(g[th]) : th \in {x \in Threads : g[x].pattern # <<>>}}

\* The statement of C13 as written: there are tokens (among all raw tokens
\* up to MaxRawLen and those of the calls under way) on which the first
\* pass produces a ~0 that the second pass decodes, so that the two passes
\* give another result than one left-to-right decode.
C13_TwoPassDiffers ==
    \E token \in RawTokens \cup CallTokens :
        PassOneMakesTilde0(token) /\ unescapeToken(token) # DecodeLeftToRight(token)

\* C13 (amended): decoding is two whole-token passes in fixed order (every
\* ~1 to /, then every ~0 to ~).  The first pass never produces a ~0, and
\* for every token the result of the two passes is the result of one
\* left-to-right decode that translates each ~0 and ~1 once.
C13_TwoPassIsLeftToRight ==
    \A th \in Threads :
        LET c == g[th]
        IN  c.pc # "idle" /\ c.pattern # <<>> =>
              /\ New(c.pattern).ptr.tokens = <<unescapeToken(RawToken(c))>>
              /\ unescapeToken(RawToken(c)) = DecodeLeftToRight(RawToken(c))
              /\ ~PassOneMakesTilde0(RawToken(c))

\* the token a~01a, on which the order of the passes matters, was decoded
\* to a~1a and the call reached that key
C13_Witness ==
    \E th \in Threads :
        /\ Done(g[th])
        /\ RawToken(g[th]) = <<"a", "~", "0", "1", "a">>
        /\ unescapeToken(RawToken(g[th])) = <<"a", "~", "1", "a">>
        /\ g[th].err = "ok"
        /\ g[th].dst = StrV("v3")

----------------------------------------------------------------------------
(* The walk of the Keyed engine, under SpecRetrieve.                       *)

GenericMap(v) == v.k = "map" /\ v.et = "any"

\* C14: in the Keyed engine, at every step with a token left, a current
\* value that is neither a map[string]any nor a []any fails the call with
\* TypeMismatch, and no source is created for it; a key the current map
\* lacks fails with NotFound; after the last token the current value,
\* whatever its shape, is assigned.
C14_KeyedWalk ==
    \A th \in Threads :
        LET c == g[th]
        IN  EngineCall(c, "map") =>
              /\ c.trace[Len(c.trace)] = "map"
              /\ \A i \in 0..(Len(EngineTokens(c)) - 1) :
                     LET r == mapWalk(c.src, SubSeq(EngineTokens(c), 1, i))
                     IN  r.err = "ok" =>
                           /\ ~GenericMap(r.val) /\ ~GenericList(r.val)
                                  => c.err = "TypeMismatch" /\ c.dst = OldDst
                           /\ GenericMap(r.val) /\ EngineTokens(c)[i + 1] \notin DOMAIN r.val.m
                                  => c.err = "NotFound" /\ c.dst = OldDst
              /\ LET full == mapWalk(c.src, EngineTokens(c))
                 IN  full.err = "ok" => SameOutcome(c, AssignIfCompatible(c.dstT, full.val))

\* "/e/b" on a map whose entry e is a record: the record is not entered
C14_Witness ==
    \E th \in Threads :
        /\ Done(g[th])
        /\ g[th].target = NestMap
        /\ g[th].pattern = <<"/", "e", "/", "b">>
        /\ g[th].trace = <<"map">>
        /\ g[th].err = "TypeMismatch"

----------------------------------------------------------------------------
(* Termination of the construction of a name table, under SpecCyclic.      *)

\* C15: the construction of the name table ends for every record shape, a
\* shape that embeds a reference to itself among them: every caller that
\* holds the exclusive lock of the cache releases it, and every caller that
\* builds a table comes back from getStructInfo.
C15_BuildTerminates ==
    \A th \in Threads :
        /\ (writer = th) ~> (writer = 0)
        /\ (g[th].pc = "build") ~> (g[th].pc = "lookup")

----------------------------------------------------------------------------
(* The locking discipline of the cache, under Spec.                        *)

\* the callers that hold a structInfo taken from the cache or just stored
Holding == {th \in Threads : g[th].pc \in {"rhit", "unlock", "lookup"}}

\* C16: the cache map is written only while the exclusive lock is held and
\* no reader holds the shared lock; a structInfo is in the cache, and in
\* the hands of a caller, only with its name table completely built.
C16_WritesUnderLock ==
    /\ [](/\ writer # 0 => readers = {}
          /\ \A t \in DOMAIN structCache : structCache[t].fields = processFields(t)
          /\ \A th \in Holding : g[th].info.fields = processFields(g[th].typ))
    /\ [][structCache' # structCache => writer # 0 /\ readers = {}]_vars

\* a caller has stored a table and still holds the exclusive lock while
\* another caller waits for the lock
C16_Witness ==
    \E th \in Threads :
        /\ g[th].pc = "unlock"
        /\ writer = th
        /\ g[th].typ \in DOMAIN structCache
        /\ built.ins[g[th].typ] = <<g[th].info.id>>
        /\ \E other \in Threads \ {th} : g[other].pc \in {"rlock", "lock"}

----------------------------------------------------------------------------
(* How a call ends, under SpecRetrieve.                                    *)

\* C17: for a target without a resolver of its own, no call ends in a panic
\* or a fatal error: it returns success or an error value.  A token that
\* names a field flattened from an embedded record behind a nil reference
\* yields an error.
C17_NoAbnormalEnd ==
    \A th \in Threads :
        g[th].target.k # "custom" => g[th].err \notin {"PANIC", "FATAL"}

----------------------------------------------------------------------------
(* The JSON-Text engine against the Keyed engine, under SpecRetrieve.      *)

\* C18: for a JSON text whose root is an object (an object with a repeated
\* property name among them) and every pointer, the call on the text ends
\* as the call with the same pointer ends on the generic value that the
\* empty pointer retrieves from the text.
C18_JsonAgreesWithKeyed ==
    \A th \in Threads :
        LET c == g[th]
        IN  Done(c) /\ c.trace = <<"json">> /\ c.src.t = "object" =>
              LET generic == assignFromValue("any", c.src)
              IN  generic.err = "ok"
                      => SameOutcome(c, Resolve(generic.w[1], c.dstT, c.pattern))

====
